---- MODULE Spec2Model ----
(***************************************************************************)
(* A model of the card localization and field-recognition pipeline of      *)
(* fc_card_recognition: core/recognizer.py (OCRRecognizer,                  *)
(* CombinedRecognizer) and core/image_processor.py (ImageProcessor).        *)
(*                                                                         *)
(* Conventions.                                                            *)
(*  - A text is a sequence of characters, each character a one-character   *)
(*    string (a Hangul syllable is written as its code point, "uC54C").    *)
(*  - A confidence is a rational <<num, den>>, den > 0; Python's float     *)
(*    count / n is exact for the small integers that occur.                *)
(*  - An image is abstracted to what the code reads from it: its identity  *)
(*    (the bytes that are hashed), whether it is empty, whether it has     *)
(*    three channels, what the OCR engine returns on each preprocessed     *)
(*    variant, and the three scanlines of its green mask.                  *)
(***************************************************************************)
EXTENDS Integers, Sequences, FiniteSets, TLC

VARIABLES
    enable_caching,     \* BaseRecognizer.enable_caching
    ocr_cache,          \* BaseRecognizer.ocr_cache, in insertion order
    player_name_dict,   \* BaseRecognizer.player_name_dict
    models,             \* CombinedRecognizer.models: fields with a classifier
    use_manual_roi,     \* config 'settings'/'use_manual_roi'
    roi_config,         \* ImageProcessor.roi_config
    last,               \* the last operation: its arguments and what it returned
    prev,               \* what last was when the last recognize_text call began
    ncalls,             \* number of calls so far, per kind of call
    inflight            \* recognize_text calls running on worker threads:
                        \* for each thread its position and its locals

vars == <<enable_caching, ocr_cache, player_name_dict, models,
          use_manual_roi, roi_config, last, prev, ncalls, inflight>>

(***************************************************************************)
(* Characters and texts                                                    *)
(***************************************************************************)
Range(s) == {s[i] : i \in DOMAIN s}

DigitChars == <<"0", "1", "2", "3", "4", "5", "6", "7", "8", "9">>

LowerChars == <<"a", "b", "c", "d", "e", "f", "g", "h", "i", "j", "k", "l", "m",
                "n", "o", "p", "q", "r", "s", "t", "u", "v", "w", "x", "y", "z">>

UpperChars == <<"A", "B", "C", "D", "E", "F", "G", "H", "I", "J", "K", "L", "M",
                "N", "O", "P", "Q", "R", "S", "T", "U", "V", "W", "X", "Y", "Z">>

\* The Hangul syllables of the default player name.
HangulChars == {"uC54C", "uC218", "uC5C6", "uC74C"}

WhitespaceChars == {" ", "\t", "\n"}

\* str.isdigit
IsDigit(c) == c \in Range(DigitChars)

\* str.isalpha
IsAlpha(c) == c \in Range(LowerChars) \cup Range(UpperChars) \cup HangulChars

\* a character the pattern [^\w가-힣] keeps
IsWordChar(c) == IsAlpha(c) \/ IsDigit(c) \/ c = "_"

\* str.upper, one character
UpperChar(c) ==
    IF c \in Range(LowerChars)
    THEN UpperChars[CHOOSE i \in DOMAIN LowerChars : LowerChars[i] = c]
    ELSE c

\* str.upper
Upper(text) == [i \in DOMAIN text |-> UpperChar(text[i])]

\* ''.join(filter(str.isdigit, text))
DigitsOnly(text) == SelectSeq(text, IsDigit)

\* ''.join(filter(str.isalpha, text))
AlphaOnly(text) == SelectSeq(text, IsAlpha)

\* re.sub(r'[^\w가-힣]', '', text)
WordCharsOnly(text) == SelectSeq(text, IsWordChar)

\* text.replace(' ', '')
IsNotSpace(c) == c # " "
RemoveSpaces(text) == SelectSeq(text, IsNotSpace)

\* str.strip
RECURSIVE StripLeft(_)
StripLeft(text) ==
    IF text # <<>> /\ Head(text) \in WhitespaceChars
    THEN StripLeft(Tail(text))
    ELSE text

RECURSIVE StripRight(_)
StripRight(text) ==
    IF text # <<>> /\ text[Len(text)] \in WhitespaceChars
    THEN StripRight(SubSeq(text, 1, Len(text) - 1))
    ELSE text

Strip(text) == StripRight(StripLeft(text))

DigitVal(c) == (CHOOSE i \in DOMAIN DigitChars : DigitChars[i] = c) - 1

\* int(text), text a non-empty sequence of digits
RECURSIVE ParseInt(_)
ParseInt(text) ==
    IF text = <<>> THEN 0
    ELSE 10 * ParseInt(SubSeq(text, 1, Len(text) - 1)) + DigitVal(text[Len(text)])

\* str(n), n >= 0
RECURSIVE ToStr(_)
ToStr(n) ==
    IF n < 10 THEN <<DigitChars[n + 1]>>
    ELSE Append(ToStr(n \div 10), DigitChars[(n % 10) + 1])

\* sub in text
Contains(text, sub) ==
    \E i \in 0..(Len(text) - Len(sub)) : SubSeq(text, i + 1, i + Len(sub)) = sub

\* text.startswith(sub)
StartsWith(text, sub) ==
    Len(text) >= Len(sub) /\ SubSeq(text, 1, Len(sub)) = sub

(***************************************************************************)
(* OCRRecognizer._postprocess_text                                         *)
(***************************************************************************)
valid_positions ==
    { <<"G","K">>, <<"S","W">>, <<"C","B">>, <<"L","B">>, <<"R","B">>,
      <<"D","M","F">>, <<"C","M","F">>, <<"L","M","F">>, <<"R","M","F">>,
      <<"A","M","F">>, <<"L","W","F">>, <<"R","W","F">>, <<"S","S">>,
      <<"C","F">>, <<"S","T">>, <<"C","A","M">>, <<"C","D","M">>, <<"R","W">> }

position_correction ==
    ( <<"D","M">> :> <<"D","M","F">> ) @@ ( <<"C","M">> :> <<"C","M","F">> ) @@
    ( <<"A","M">> :> <<"A","M","F">> ) @@ ( <<"R","M">> :> <<"R","M","F">> ) @@
    ( <<"L","M">> :> <<"L","M","F">> ) @@ ( <<"R","W">> :> <<"R","W","F">> ) @@
    ( <<"L","W">> :> <<"L","W","F">> ) @@ ( <<"C","D">> :> <<"C","B">> ) @@
    ( <<"L","W","P">> :> <<"L","W","F">> ) @@ ( <<"B","W","F">> :> <<"R","W","F">> ) @@
    ( <<"D","M","I">> :> <<"D","M","F">> ) @@ ( <<"C","N","F">> :> <<"C","M","F">> ) @@
    ( <<"B","M","P">> :> <<"R","M","F">> )

icon_correction ==
    ( <<"F","C","2","1">> :> <<"2","1","F","C">> ) @@
    ( <<"F","C","2","2">> :> <<"2","2","F","C">> ) @@
    ( <<"T","O","T">> :> <<"T","O","T","S">> ) @@
    ( <<"T","T","S">> :> <<"T","O","T","S">> ) @@
    ( <<"T","0","T","S">> :> <<"T","O","T","S">> ) @@
    ( <<"T","T","Y">> :> <<"T","O","T","Y">> ) @@
    ( <<"T","O","Y">> :> <<"T","O","T","Y">> ) @@
    ( <<"T","0","T","Y">> :> <<"T","O","T","Y">> ) @@
    ( <<"H","R","O">> :> <<"H","E","R","O">> ) @@
    ( <<"H","E","R">> :> <<"H","E","R","O">> ) @@
    ( <<"H","E","P","0">> :> <<"H","E","R","O">> ) @@
    ( <<"I","C","0","N">> :> <<"I","C","O","N">> ) @@
    ( <<"I","C","N">> :> <<"I","C","O","N">> ) @@
    ( <<"1","C","O","N">> :> <<"I","C","O","N">> )

\* a branch for 'overall' that re-bases 120 as well
PostOverallRebasesTop(text) ==
    IF text # <<>>
    THEN LET num == ParseInt(text) IN
         IF num < 70 THEN ToStr(70 + (num % 50))
         ELSE IF num >= 120 THEN ToStr(70 + (num % 50))
         ELSE text
    ELSE text

\* a branch for 'overall' that re-bases low numbers from 60
PostOverallRebasesLow(text) ==
    IF text # <<>>
    THEN LET num == ParseInt(text) IN
         IF num < 70 THEN ToStr(60 + (num % 50))
         ELSE IF num > 120 THEN ToStr(70 + (num % 50))
         ELSE text
    ELSE text

\* the branch for 'overall', on the digits of the text
PostOverall(text) ==
    IF text # <<>>
    THEN LET num == ParseInt(text) IN
         IF num < 70 THEN ToStr(70 + (num % 50))
         ELSE IF num > 120 THEN ToStr(70 + (num % 50))
         ELSE text
    ELSE text

\* a branch for 'position' that keeps every valid code as it is
PostPositionKeepsValid(text) ==
    IF text \in valid_positions THEN text
    ELSE IF text \in DOMAIN position_correction THEN position_correction[text]
    ELSE text

\* the branch for 'position', on the upper-cased letters of the text
PostPosition(text) ==
    LET t1 == IF text \in DOMAIN position_correction
              THEN position_correction[text] ELSE text
    IN  IF t1 \notin valid_positions
        THEN IF Contains(t1, <<"L","W">>) \/ Contains(t1, <<"L","F">>)
                THEN <<"L","W","F">>
             ELSE IF Contains(t1, <<"R","W">>) \/ Contains(t1, <<"R","F">>)
                THEN <<"R","W","F">>
             ELSE IF Contains(t1, <<"D","M">>) THEN <<"D","M","F">>
             ELSE IF Contains(t1, <<"C","M">>) THEN <<"C","M","F">>
             ELSE IF Contains(t1, <<"A","M">>) THEN <<"A","M","F">>
             ELSE IF Contains(t1, <<"C","B">>) THEN <<"C","B">>
             ELSE IF StartsWith(t1, <<"S">>) /\ Len(t1) > 1 THEN <<"S","T">>
             ELSE t1
        ELSE t1

\* a branch for 'salary' that re-bases to n mod 100
PostSalaryModOnly(text) ==
    IF text # <<>>
    THEN LET num == ParseInt(text) IN
         IF num > 100 THEN ToStr(num % 100) ELSE text
    ELSE text

\* the branch for 'salary', on the digits of the text
PostSalary(text) ==
    IF text # <<>>
    THEN LET num == ParseInt(text) IN
         IF num > 100 THEN ToStr(1 + (num % 100)) ELSE text
    ELSE text

\* the branch for 'enhance_level', on the digits of the text
PostEnhance(text) ==
    IF text # <<>>
    THEN LET num == ParseInt(text) IN
         IF num > 5 THEN <<"5">> ELSE text
    ELSE text

\* the branch for 'player_name': the stripped text, looked up in the dictionary
PostPlayerName(text, dict) ==
    LET t1 == RemoveSpaces(WordCharsOnly(text))
    IN  IF t1 \in DOMAIN dict THEN dict[t1] ELSE t1

\* the branch for 'season_icon'
PostSeasonIcon(text) ==
    LET t1 == Upper(RemoveSpaces(text))
    IN  IF t1 \in DOMAIN icon_correction THEN icon_correction[t1] ELSE t1

PostprocessText(text, field, dict) ==
    CASE field = "overall"       -> PostOverall(DigitsOnly(text))
      [] field = "position"      -> PostPosition(Upper(AlphaOnly(text)))
      [] field = "salary"        -> PostSalary(DigitsOnly(text))
      [] field = "enhance_level" -> PostEnhance(DigitsOnly(text))
      [] field = "player_name"   -> PostPlayerName(text, dict)
      [] field = "season_icon"   -> PostSeasonIcon(text)
      [] OTHER                   -> text

(***************************************************************************)
(* Confidences                                                             *)
(***************************************************************************)
ConfZero == <<0, 1>>      \* 0.0
ConfOne == <<1, 1>>       \* 1.0

\* a == b, a > b on floats that are exact quotients
ConfEq(a, b) == a[1] * b[2] = b[1] * a[2]
ConfGt(a, b) == a[1] * b[2] > b[1] * a[2]

(***************************************************************************)
(* Images                                                                  *)
(***************************************************************************)
NoneRoi == [kind |-> "none"]        \* roi is None
EmptyRoi == [kind |-> "empty"]      \* roi.size == 0

\* what pytesseract.image_to_string does on one preprocessed variant
Reads(text) == [raises |-> FALSE, text |-> text]
Raises == [raises |-> TRUE, text |-> <<>>]

\* hashlib.md5(roi.tobytes()).hexdigest(): one digest per pixel content
RoiHash(roi) == roi.bytes

(***************************************************************************)
(* OCRRecognizer._recognize_boost_level                                    *)
(***************************************************************************)
boost_steps == <<0, 20, 40, 50, 60, 80, 100>>

\* boost_thresholds, in hundredths
boost_thresholds == <<5, 25, 45, 55, 65, 85, 95>>

\* np.any(row[x:x+5] > 0), x a 0-based index
AnyGreenAhead(row, x) ==
    \E j \in x..(x + 4) : j + 1 <= Len(row) /\ row[j + 1] > 0

\* the scan of one row from column x on, green_end being ge so far
RECURSIVE ScanRow(_, _, _)
ScanRow(row, x, ge) ==
    IF x >= Len(row) THEN ge
    ELSE IF row[x + 1] > 0 THEN ScanRow(row, x + 1, x)
    ELSE IF x + 5 < Len(row) /\ AnyGreenAhead(row, x) THEN ScanRow(row, x + 1, ge)
    ELSE IF ge > 0 THEN ge
    ELSE ScanRow(row, x + 1, ge)

GreenEnd(row) == ScanRow(row, 0, 0)

\* green_ratio = (sum(green_ends) / len(green_ends) + 1) / width, as <<num, den>>
GreenRatio(mask) ==
    LET width == Len(mask[1])
        total == GreenEnd(mask[1]) + GreenEnd(mask[2]) + GreenEnd(mask[3])
    IN  <<total + 3, 3 * width>>

\* a comparison that takes the thresholds the ratio stays under
RatioAtMost(ratio, threshold) == ratio[1] * 100 <= threshold * ratio[2]

\* a comparison that leaves out the ratio equal to the threshold
RatioAbove(ratio, threshold) == ratio[1] * 100 > threshold * ratio[2]

\* green_ratio >= threshold
RatioAtLeast(ratio, threshold) == ratio[1] * 100 >= threshold * ratio[2]

\* a gauge that reports the ratio in percent, not quantized
BoostPercentExact(ratio) == (ratio[1] * 100) \div ratio[2]

\* the loop over boost_thresholds: the last threshold reached sets the step
BoostPercent(ratio) ==
    LET reached == {i \in DOMAIN boost_thresholds :
                        RatioAtLeast(ratio, boost_thresholds[i])}
    IN  IF reached = {} THEN 0
        ELSE boost_steps[CHOOSE i \in reached : \A j \in reached : j <= i]

\* cv2.cvtColor(roi, COLOR_BGR2HSV) raises on an image that is not 3-channel
RecognizeBoostLevel(roi) ==
    IF ~roi.bgr THEN <<ToStr(0), ConfZero>>
    ELSE <<ToStr(BoostPercent(GreenRatio(roi.mask))), ConfOne>>

(***************************************************************************)
(* OCRRecognizer.recognize_text                                            *)
(***************************************************************************)
TextFields == {"overall", "position", "salary", "enhance_level",
               "player_name", "season_icon"}

KnownFields == TextFields \cup {"boost_level"}

\* len(preprocessed_images) of _get_preprocessing_config
NumVariants(field) == IF field \in TextFields THEN 4 ELSE 1

\* _get_preprocessing_config converts to gray for the six text fields, which
\* raises on an image that is not 3-channel
PreprocessingRaises(roi, field) == field \in TextFields /\ ~roi.bgr

default_values ==
    [overall |-> <<"8","0">>, position |-> <<"S","T">>, salary |-> <<"1">>,
     enhance_level |-> <<"0">>,
     player_name |-> <<"uC54C"," ","uC218"," ","uC5C6","uC74C">>,
     season_icon |-> <<"2","1","F","C">>, boost_level |-> <<"0">>]

\* default_values.get(field, '')
DefaultValue(field) ==
    IF field \in DOMAIN default_values THEN default_values[field] ELSE <<>>

IsNonEmpty(text) == text # <<>>

\* the loop over the variants: the non-empty post-processed texts, in order
OcrResults(roi, field, dict) ==
    LET out(i) == IF roi.reads[i].raises THEN <<>>
                  ELSE PostprocessText(Strip(roi.reads[i].text), field, dict)
    IN  SelectSeq([i \in 1..NumVariants(field) |-> out(i)], IsNonEmpty)

Occurrences(results, text) == Cardinality({i \in DOMAIN results : results[i] = text})

\* Counter(results).most_common(1)[0]: the first-seen text among the most frequent
MostCommon(results) ==
    LET first == CHOOSE i \in DOMAIN results :
                    /\ \A j \in DOMAIN results :
                          Occurrences(results, results[j]) <= Occurrences(results, results[i])
                    /\ \A j \in 1..(i - 1) :
                          Occurrences(results, results[j]) < Occurrences(results, results[i])
    IN  <<results[first], Occurrences(results, results[first])>>

\* the cache is a dict: a sequence of entries in insertion order
CacheKeys(cache) == {cache[i].key : i \in DOMAIN cache}
CacheGet(cache, key) == cache[CHOOSE i \in DOMAIN cache : cache[i].key = key].value

\* self.ocr_cache[cache_key] = value: a known key keeps its place
CacheSet(cache, key, value) ==
    IF key \in CacheKeys(cache)
    THEN [i \in DOMAIN cache |->
            IF cache[i].key = key THEN [key |-> key, value |-> value] ELSE cache[i]]
    ELSE Append(cache, [key |-> key, value |-> value])

CacheMax == 1000

\* a store that never writes
CacheStoreSkipsWrite(cache, key, value) == cache

\* a store that evicts as soon as the cache is full
CacheStoreEvictsEarly(cache, key, value) ==
    LET c1 == CacheSet(cache, key, value)
    IN  IF Len(c1) >= CacheMax THEN Tail(c1) ELSE c1

\* a store that evicts the second oldest entry
CacheStoreEvictsSecond(cache, key, value) ==
    LET c1 == CacheSet(cache, key, value)
    IN  IF Len(c1) > CacheMax THEN <<c1[1]>> \o SubSeq(c1, 3, Len(c1)) ELSE c1

\* the write and the size limit: pop next(iter(self.ocr_cache)) above 1000 entries
CacheStore(cache, key, value) ==
    LET c1 == CacheSet(cache, key, value)
    IN  IF Len(c1) > CacheMax THEN Tail(c1) ELSE c1

\* a vote whose confidence divides by the number of non-empty results
VoteResultOverNonEmpty(results, field, dict, n) ==
    LET most_common == MostCommon(results)
        text == most_common[1]
        confidence == <<most_common[2], Len(results)>>
    IN  IF field = "player_name" /\ text \in DOMAIN dict
        THEN <<dict[text], ConfOne>>
        ELSE <<text, confidence>>

\* The vote and the dictionary override of lines 192-201.
VoteResult(results, field, dict, n) ==
    LET most_common == MostCommon(results)
        text == most_common[1]
        confidence == <<most_common[2], n>>
    IN  IF field = "player_name" /\ text \in DOMAIN dict
        THEN <<dict[text], ConfOne>>
        ELSE <<text, confidence>>

\* a cache write that ignores enable_caching
CacheWriteAlways(cache, key, value, caching) == CacheStore(cache, key, value)

\* the guarded cache write of lines 203-214
CacheWrite(cache, key, value, caching) ==
    IF caching THEN CacheStore(cache, key, value) ELSE cache

\* recognize_text as a function of its arguments and of the recognizer's state:
\*   raised  whether an exception leaves the call
\*   ret     the returned (text, confidence)
\*   cache   the cache afterwards
\*   hit     whether the call was answered from the cache
\*   ocr     the number of calls of the OCR engine
\*   store   whether the call reaches the cache write of line 206
RecognizeTextFn(roi, field, cache, dict, caching) ==
    LET key == <<field, RoiHash(roi)>>
        same == [raised |-> FALSE, ret |-> <<<<>>, ConfZero>>, cache |-> cache,
                 hit |-> FALSE, ocr |-> 0, store |-> FALSE]
    IN  IF roi.kind # "image" THEN same
        ELSE IF caching /\ key \in CacheKeys(cache)
            THEN [same EXCEPT !.ret = CacheGet(cache, key), !.hit = TRUE]
        ELSE IF field = "boost_level"
            THEN [same EXCEPT !.ret = RecognizeBoostLevel(roi)]
        ELSE IF PreprocessingRaises(roi, field)
            THEN [same EXCEPT !.raised = TRUE]
        ELSE LET n == NumVariants(field)
                 results == OcrResults(roi, field, dict)
             IN  IF results # <<>>
                 THEN LET r == VoteResult(results, field, dict, n)
                      IN  [same EXCEPT !.ret = r, !.ocr = n,
                                       !.cache = CacheWrite(cache, key, r, caching),
                                       !.store = caching]
                 ELSE [same EXCEPT !.ret = <<DefaultValue(field), ConfZero>>,
                                   !.ocr = n]

\* The call recognize_text(roi, field).
RecognizeText(roi, field) ==
    LET r == RecognizeTextFn(roi, field, ocr_cache, player_name_dict, enable_caching)
    IN  /\ ocr_cache' = r.cache
        /\ last' = [op |-> "recognize_text", roi |-> roi, field |-> field,
                    raised |-> r.raised, value |-> r.ret[1], conf |-> r.ret[2],
                    hit |-> r.hit, ocr |-> r.ocr]
        /\ prev' = last
        /\ UNCHANGED <<enable_caching, player_name_dict, models,
                       use_manual_roi, roi_config, inflight>>

(***************************************************************************)
(* recognize_text on worker threads sharing one recognizer.  The code     *)
(* takes no lock, so the statements of lines 206-212 of different calls   *)
(* interleave; each step below is one access to self.ocr_cache.           *)
(***************************************************************************)

Idle(t) == t \notin DOMAIN inflight

Returned(t) == t \in DOMAIN inflight /\ inflight[t].pc = "return"

ThreadAt(t, pc) == t \in DOMAIN inflight /\ inflight[t].pc = pc

Goto(t, pc) == inflight' = [inflight EXCEPT ![t].pc = pc]

ThreadUnchanged ==
    UNCHANGED <<enable_caching, player_name_dict, models, use_manual_roi,
                roi_config, last, prev, ncalls>>

\* lines 134-201: the lookup, the OCR runs and the vote of thread t
ThreadBegin(t, roi, field) ==
    LET r == RecognizeTextFn(roi, field, ocr_cache, player_name_dict, enable_caching)
    IN  /\ Idle(t)
        /\ ~r.raised
        /\ inflight' = inflight @@
              (t :> [pc |-> IF r.store THEN "store" ELSE "return",
                     key |-> <<field, RoiHash(roi)>>, value |-> r.ret,
                     size |-> 0, oldest |-> <<>>, swallowed |-> FALSE])
        /\ UNCHANGED ocr_cache
        /\ ThreadUnchanged

\* line 206: self.ocr_cache[cache_key] = (result_text, confidence)
ThreadStore(t) ==
    /\ ThreadAt(t, "store")
    /\ ocr_cache' = CacheSet(ocr_cache, inflight[t].key, inflight[t].value)
    /\ Goto(t, "check")
    /\ ThreadUnchanged

\* line 209: if len(self.ocr_cache) > 1000
ThreadCheck(t) ==
    /\ ThreadAt(t, "check")
    /\ Goto(t, IF Len(ocr_cache) > CacheMax THEN "iter" ELSE "return")
    /\ UNCHANGED ocr_cache
    /\ ThreadUnchanged

\* line 211: iter(self.ocr_cache) remembers the size of the dict
ThreadIter(t) ==
    /\ ThreadAt(t, "iter")
    /\ inflight' = [inflight EXCEPT ![t].pc = "next", ![t].size = Len(ocr_cache)]
    /\ UNCHANGED ocr_cache
    /\ ThreadUnchanged

\* line 211: next(...) raises RuntimeError when the dict changed size, and
\* the bare except of line 213 swallows it
ThreadNextKey(t) ==
    /\ ThreadAt(t, "next")
    /\ inflight' =
          IF Len(ocr_cache) # inflight[t].size \/ ocr_cache = <<>>
          THEN [inflight EXCEPT ![t].pc = "return", ![t].swallowed = TRUE]
          ELSE [inflight EXCEPT ![t].pc = "pop", ![t].oldest = ocr_cache[1].key]
    /\ UNCHANGED ocr_cache
    /\ ThreadUnchanged

\* line 212: self.ocr_cache.pop(oldest_key) raises KeyError when another
\* thread removed the key, and the bare except of line 213 swallows it
ThreadPop(t) ==
    /\ ThreadAt(t, "pop")
    /\ IF inflight[t].oldest \in CacheKeys(ocr_cache)
       THEN /\ ocr_cache' = SelectSeq(ocr_cache,
                                LAMBDA e : e.key # inflight[t].oldest)
            /\ Goto(t, "return")
       ELSE /\ inflight' = [inflight EXCEPT ![t].pc = "return",
                                            ![t].swallowed = TRUE]
            /\ UNCHANGED ocr_cache
    /\ ThreadUnchanged

(***************************************************************************)
(* BaseRecognizer.update_player_name_dict                                  *)
(***************************************************************************)
\* corrections: has_name is 'player_name' in corrections, name its value,
\* original is corrections.get('original_player_name', '')
\* an update that accepts every correction
UpdateAcceptedAlways(corrections) == TRUE

\* the three early returns of lines 75-89
UpdateAccepted(corrections) ==
    /\ corrections.has_name
    /\ corrections.original # <<>>
    /\ corrections.name # <<>>
    /\ corrections.original # corrections.name

UpdatePlayerNameDict(corrections) ==
    /\ player_name_dict' =
         IF UpdateAccepted(corrections)
         THEN (corrections.original :> corrections.name) @@ player_name_dict
         ELSE player_name_dict
    /\ last' = [op |-> "update_player_name_dict", corrections |-> corrections,
                ret |-> UpdateAccepted(corrections)]
    /\ UNCHANGED <<enable_caching, ocr_cache, models, use_manual_roi, roi_config, prev, inflight>>

(***************************************************************************)
(* The recognizer under single-threaded use: recognitions and corrections  *)
(***************************************************************************)
MaxRecognitions == 2
MaxUpdates == 1

\* a field name with no entry in any table of the recognizer
UnknownField == "team"

FieldOrder == <<"overall", "position", "salary", "enhance_level",
                "player_name", "season_icon", "boost_level", UnknownField>>

FieldIndex(field) == CHOOSE i \in DOMAIN FieldOrder : FieldOrder[i] = field

\* Two raw engine outputs per field, "a" and "b".
RawText(field, sym) ==
    CASE field = "overall" ->
            IF sym = "a" THEN <<"8","8">> ELSE <<"1","3","0">>
      [] field = "position" ->
            IF sym = "a" THEN <<"d","m">> ELSE <<"S","T">>
      [] field = "salary" ->
            IF sym = "a" THEN <<"2","5">> ELSE <<"1","2","5">>
      [] field = "enhance_level" ->
            IF sym = "a" THEN <<"3">> ELSE <<"9">>
      [] field = "player_name" ->
            IF sym = "a" THEN <<"J",".","K">> ELSE <<"K","i","m">>
      [] field = "season_icon" ->
            IF sym = "a" THEN <<"f","c","2","1">> ELSE <<"T","O","T","S">>
      [] OTHER ->
            IF sym = "a" THEN <<"x">> ELSE <<"y">>

\* What the engine does on the four variants of an image: reads "a", reads "b",
\* reads nothing ("e"), raises ("x").
ReadPatterns ==
    << <<"a","a","a","a">>, <<"a","a","e","x">>, <<"a","b","a","b">>,
       <<"b","b","a","e">>, <<"e","e","e","e">>, <<"x","e","x","e">>,
       <<"e","x","b","e">> >>

Reading(field, sym) ==
    CASE sym = "e" -> Reads(<<>>)
      [] sym = "x" -> Raises
      [] OTHER     -> Reads(RawText(field, sym))

\* a row of the green mask with no green pixel
BlankRow == <<0, 0, 0, 0>>
BlankMask == <<BlankRow, BlankRow, BlankRow>>

\* the image of a field whose variants read as pattern number p
TextImage(field, p) ==
    [kind |-> "image", bytes |-> <<FieldIndex(field), p>>, bgr |-> TRUE,
     reads |-> [i \in 1..4 |-> Reading(field, ReadPatterns[p][i])],
     mask |-> BlankMask]

\* the same picture as a single-channel array
GrayImage(field) ==
    [kind |-> "image", bytes |-> <<FieldIndex(field), 0>>, bgr |-> FALSE,
     reads |-> [i \in 1..4 |-> Reading(field, "a")],
     mask |-> BlankMask]

\* a gauge of the given width with k green columns from the left edge
Bar(width, k) == [x \in 1..width |-> IF x <= k THEN 1 ELSE 0]

GaugeImage(width, k) ==
    [kind |-> "image", bytes |-> <<width, k>>, bgr |-> TRUE,
     reads |-> [i \in 1..4 |-> Reads(<<>>)],
     mask |-> <<Bar(width, k), Bar(width, k), Bar(width, k)>>]

GaugeWidth == 4

RoisOf(field) ==
    {NoneRoi, EmptyRoi} \cup
    ( IF field = "boost_level"
      THEN {GaugeImage(GaugeWidth, k) : k \in {0, GaugeWidth}}
      ELSE {TextImage(field, p) : p \in DOMAIN ReadPatterns}
           \cup {GrayImage(field)} )

AllFields == KnownFields \cup {UnknownField}

\* names: what the engine reads, stripped, and what a user corrects it to
Name1 == <<"J","K">>
Name2 == <<"K","i","m">>
Name3 == <<"J"," ","K","i","m">>

EmptyDict == <<>>

\* player_names.json as earlier runs left it
LoadedDicts == {EmptyDict, Name1 :> Name2}

\* player_names.json after the corrections Name1 -> Name2 and Name2 -> Name3
ChainDict == (Name1 :> Name2) @@ (Name2 :> Name3)

Corrections ==
    { [has_name |-> TRUE, original |-> o, name |-> n] :
          o \in {<<>>, Name1, Name2}, n \in {<<>>, Name2, Name3} }
    \cup { [has_name |-> FALSE, original |-> Name1, name |-> <<>>] }

NoCalls == [recognize |-> 0, update |-> 0]
NoThreads == <<>>
NoOp == [op |-> "none"]

Init ==
    /\ enable_caching \in BOOLEAN
    /\ ocr_cache = <<>>
    /\ player_name_dict \in LoadedDicts
    /\ models = {}
    /\ use_manual_roi = FALSE
    /\ roi_config = EmptyDict
    /\ last = NoOp
    /\ inflight = NoThreads
    /\ prev = NoOp
    /\ ncalls = NoCalls

Recognize ==
    /\ ncalls.recognize < MaxRecognitions
    /\ ncalls' = [ncalls EXCEPT !.recognize = @ + 1]
    /\ \E field \in AllFields : \E roi \in RoisOf(field) : RecognizeText(roi, field)

Update ==
    /\ ncalls.update < MaxUpdates
    /\ ncalls' = [ncalls EXCEPT !.update = @ + 1]
    /\ \E corrections \in Corrections : UpdatePlayerNameDict(corrections)

Next == Recognize \/ Update

Spec == Init /\ [][Next]_vars

(***************************************************************************)
(* The cache filled beyond its capacity: distinct images of one field are  *)
(* recognized one after the other, and the first and the latest image are  *)
(* looked at again in between.                                             *)
(***************************************************************************)
MaxOverfill == 2
MaxRevisits == 1

\* the n-th distinct image: all four variants read "88"
FillImage(n) ==
    [kind |-> "image", bytes |-> <<0, n>>, bgr |-> TRUE,
     reads |-> [i \in 1..4 |-> Reads(<<"8","8">>)],
     mask |-> BlankMask]

FillKey(n) == <<"overall", RoiHash(FillImage(n))>>

InitCache ==
    /\ enable_caching = TRUE
    /\ ocr_cache = <<>>
    /\ player_name_dict = EmptyDict
    /\ models = {}
    /\ use_manual_roi = FALSE
    /\ roi_config = EmptyDict
    /\ last = NoOp
    /\ inflight = NoThreads
    /\ prev = NoOp
    /\ ncalls = [fresh |-> 0, revisit |-> 0]

\* recognize an image never seen before
RecognizeFresh ==
    /\ ncalls.fresh < CacheMax + MaxOverfill
    /\ ncalls' = [ncalls EXCEPT !.fresh = @ + 1]
    /\ RecognizeText(FillImage(ncalls.fresh + 1), "overall")

\* recognize again the first image, or the one recognized last
RecognizeAgain ==
    /\ ncalls.fresh >= 1
    /\ ncalls.revisit < MaxRevisits
    /\ ncalls' = [ncalls EXCEPT !.revisit = @ + 1]
    /\ \E n \in {1, ncalls.fresh} : RecognizeText(FillImage(n), "overall")

NextCache == RecognizeFresh \/ RecognizeAgain

SpecCache == InitCache /\ [][NextCache]_vars

(***************************************************************************)
(* Worker threads sharing the recognizer: the cache is filled by calls on  *)
(* one thread, then every worker recognizes one image of its own; the      *)
(* workers' accesses to the cache interleave freely.                       *)
(***************************************************************************)
NumThreads == 2

Threads == 1..NumThreads

\* the image of worker t, which no other call recognizes
ThreadImage(t) == FillImage(CacheMax + MaxOverfill + t)

\* a call on the main thread while no worker is running
FillBeforeThreads ==
    /\ inflight = NoThreads
    /\ RecognizeFresh

ThreadStep ==
    \E t \in Threads :
        \/ ThreadBegin(t, ThreadImage(t), "overall")
        \/ ThreadStore(t)
        \/ ThreadCheck(t)
        \/ ThreadIter(t)
        \/ ThreadNextKey(t)
        \/ ThreadPop(t)

NextThreads == FillBeforeThreads \/ ThreadStep

SpecThreads == InitCache /\ [][NextThreads]_vars

(***************************************************************************)
(* OCRRecognizer.recognize_all and CombinedRecognizer.recognize_all        *)
(*                                                                         *)
(* rois is a dict in insertion order: a sequence of [field, roi].  A       *)
(* result is a function from field names to (value, confidence).           *)
(***************************************************************************)
\* the fields _load_models looks for
ModelFields == {"overall", "position", "salary", "enhance_level", "season_icon"}

position_classes ==
    << <<"G","K">>, <<"S","W">>, <<"C","B">>, <<"L","B">>, <<"R","B">>,
       <<"D","M","F">>, <<"C","M","F">>, <<"L","M","F">>, <<"R","M","F">>,
       <<"A","M","F">>, <<"L","W","F">>, <<"R","W","F">>, <<"S","S">>,
       <<"C","F">>, <<"S","T">>, <<"C","A","M">>, <<"C","D","M">>, <<"R","W">> >>

season_classes ==
    << <<"2","1","F","C">>, <<"2","2","F","C">>, <<"T","O","T","S">>,
       <<"T","O","T","Y">>, <<"I","C","O","N">>, <<"H","E","R","O">>,
       <<"L","O","L">>, <<"H","C">>, <<"O","T","H","E","R">> >>

Min(a, b) == IF a < b THEN a ELSE b

\* the value of class number pred_class (counted from 0) of a field's classifier
PredValue(field, pred_class) ==
    CASE field = "overall"       -> ToStr(pred_class + 70)
      [] field = "position"      ->
            position_classes[Min(pred_class, Len(position_classes) - 1) + 1]
      [] field = "enhance_level" -> ToStr(pred_class)
      [] field = "season_icon"   ->
            season_classes[Min(pred_class, Len(season_classes) - 1) + 1]
      [] field = "salary"        -> ToStr(pred_class + 1)

RoiOf(rois, field) ==
    LET i == CHOOSE i \in DOMAIN rois : rois[i].field = field IN rois[i].roi

FieldsOf(rois) == {rois[i].field : i \in DOMAIN rois}

\* the fields of rois whose image is not None
PresentFields(rois) ==
    {rois[i].field : i \in {j \in DOMAIN rois : rois[j].roi.kind # "none"}}

SetEntry(results, field, pair) ==
    [f \in DOMAIN results \cup {field} |-> IF f = field THEN pair ELSE results[f]]

\* OCRRecognizer.recognize_all from entry i on; acc is what the loop has built:
\* the results, the cache, and whether recognize_text raised
RECURSIVE OcrRecognizeAll(_, _, _, _, _)
OcrRecognizeAll(rois, i, acc, dict, caching) ==
    IF i > Len(rois) \/ acc.raised THEN acc
    ELSE IF rois[i].roi.kind = "none"
        THEN OcrRecognizeAll(rois, i + 1, acc, dict, caching)
    ELSE LET r == RecognizeTextFn(rois[i].roi, rois[i].field, acc.cache, dict, caching)
         IN  OcrRecognizeAll(rois, i + 1,
                 [raised  |-> r.raised,
                  results |-> IF r.raised THEN acc.results
                              ELSE SetEntry(acc.results, rois[i].field, r.ret),
                  cache   |-> r.cache],
                 dict, caching)

\* cv2.resize raises on an image of size 0; the model's predict may raise
InferenceRaises(roi, pred) == roi.kind = "empty" \/ pred.raises

\* a fusion that also replaces on equal confidence
ReplacesOnTie(pred_conf, ocr_conf) == ~ConfGt(ocr_conf, pred_conf)

\* the fusion test
Replaces(pred_conf, ocr_conf) == ConfGt(pred_conf, ocr_conf)

\* a fusion that takes the classifier's value but keeps the OCR confidence
FuseFieldKeepsConfidence(results, rois, field, pred) ==
    IF field \notin PresentFields(rois) THEN results
    ELSE IF InferenceRaises(RoiOf(rois, field), pred) THEN results
    ELSE IF Replaces(pred.conf, results[field][2])
        THEN [results EXCEPT ![field] = <<PredValue(field, pred.class), @[2]>>]
    ELSE results

\* one round of the loop over self.models
FuseField(results, rois, field, pred) ==
    IF field \notin PresentFields(rois) THEN results
    ELSE IF InferenceRaises(RoiOf(rois, field), pred) THEN results
    ELSE IF Replaces(pred.conf, results[field][2])
        THEN [results EXCEPT ![field] = <<PredValue(field, pred.class), pred.conf>>]
    ELSE results

\* the loop over self.models, from the i-th field of FieldOrder on
RECURSIVE FuseAll(_, _, _, _, _)
FuseAll(results, rois, loaded, preds, i) ==
    IF i > Len(FieldOrder) THEN results
    ELSE IF FieldOrder[i] \in loaded
        THEN FuseAll(FuseField(results, rois, FieldOrder[i], preds[FieldOrder[i]]),
                     rois, loaded, preds, i + 1)
    ELSE FuseAll(results, rois, loaded, preds, i + 1)

\* The call recognize_all(rois) of a CombinedRecognizer whose classifiers
\* behave as preds says.
RecognizeAll(rois, preds) ==
    LET o == OcrRecognizeAll(rois, 1,
                 [raised |-> FALSE, results |-> <<>>, cache |-> ocr_cache],
                 player_name_dict, enable_caching)
    IN  /\ ocr_cache' = o.cache
        /\ last' = [op |-> "recognize_all", rois |-> rois, preds |-> preds,
                    raised |-> o.raised, ocr |-> o.results,
                    results |-> IF o.raised THEN o.results
                                ELSE FuseAll(o.results, rois, models, preds, 1)]
        /\ UNCHANGED <<enable_caching, player_name_dict, models,
                       use_manual_roi, roi_config, prev, inflight>>

(***************************************************************************)
(* A CombinedRecognizer with some classifiers loaded, recognizing cards of *)
(* one or two fields                                                       *)
(***************************************************************************)
MaxRecognizeAll == 1

CardFields == <<"overall", "position", "salary", "enhance_level",
                "player_name", "season_icon", "boost_level">>

\* the images a field of a card may come as
CardRois(field) ==
    IF field = "boost_level"
    THEN {NoneRoi, EmptyRoi, GaugeImage(GaugeWidth, 0),
          GaugeImage(GaugeWidth, GaugeWidth)}
    ELSE {NoneRoi, EmptyRoi, TextImage(field, 1), TextImage(field, 2),
          TextImage(field, 5)}
         \cup (IF field = "overall" THEN {GrayImage(field)} ELSE {})

\* cards of one field, and of two different fields in either order
Cards ==
    UNION { { << [field |-> CardFields[i], roi |-> r] >> :
                 r \in CardRois(CardFields[i]) } : i \in DOMAIN CardFields }
    \cup
    UNION { { << [field |-> CardFields[ij[1]], roi |-> r1],
                 [field |-> CardFields[ij[2]], roi |-> r2] >> :
                 r1 \in CardRois(CardFields[ij[1]]),
                 r2 \in CardRois(CardFields[ij[2]]) } :
            ij \in {p \in (DOMAIN CardFields) \X (DOMAIN CardFields) : p[1] # p[2]} }

\* what a classifier may answer: an exception, or a class with a confidence
Predictions ==
    { [raises |-> TRUE, class |-> 0, conf |-> ConfZero] }
    \cup { [raises |-> FALSE, class |-> c, conf |-> <<k, 4>>] :
              c \in {0, 20}, k \in {0, 2, 3, 4} }

\* the prediction of a classifier that is not asked
NoPrediction == [raises |-> TRUE, class |-> 0, conf |-> ConfZero]

\* the model files found at construction
LoadedModels == {{}, {"overall"}, ModelFields}

InitCombined ==
    /\ enable_caching \in BOOLEAN
    /\ ocr_cache = <<>>
    /\ player_name_dict \in LoadedDicts \cup {ChainDict}
    /\ models \in LoadedModels
    /\ use_manual_roi = FALSE
    /\ roi_config = EmptyDict
    /\ last = NoOp
    /\ inflight = NoThreads
    /\ prev = NoOp
    /\ ncalls = [recognize_all |-> 0]

NextCombined ==
    /\ ncalls.recognize_all < MaxRecognizeAll
    /\ ncalls' = [ncalls EXCEPT !.recognize_all = @ + 1]
    /\ \E rois \in Cards :
          \E asked \in [models \cap PresentFields(rois) -> Predictions] :
             RecognizeAll(rois, [f \in ModelFields |->
                                   IF f \in DOMAIN asked THEN asked[f]
                                   ELSE NoPrediction])

SpecCombined == InitCombined /\ [][NextCombined]_vars

(***************************************************************************)
(* ImageProcessor.extract_rois                                             *)
(*                                                                         *)
(* A ratio is its numerator over RatioDen; a box is <<x1, y1, x2, y2>>; a  *)
(* card is its size [w, h]; a crop is its origin and size.                 *)
(***************************************************************************)
RatioDen == 8 * 125

default_rois ==
    [overall       |-> <<350,  50, 650, 150>>,
     position      |-> <<350, 150, 650, 250>>,
     salary        |-> <<100, 350, 300, 450>>,
     enhance_level |-> << 50, 600, 250, 750>>,
     player_name   |-> <<200, 750, 800, 900>>,
     season_icon   |-> << 50,  50, 250, 150>>,
     boost_level   |-> <<700, 435, 970, 455>>]

\* the sides up to 450 for which the float product ratio * side falls just
\* below the integer it equals in exact arithmetic (0.35 * 180 is
\* 62.99999999999999); the ratios n/8 have exact products
RoundsBelow(ratio, side) ==
    \/ ratio = 350 /\ side \in {180, 340, 360}
    \/ ratio = 700 /\ side \in {90, 170, 180, 330, 340, 350, 360}

\* a pixel conversion that rounds to the nearest pixel
PixelOfNearest(ratio, side) == (2 * ratio * side + RatioDen) \div (2 * RatioDen)

\* int(ratio * side), for ratio >= 0
PixelOf(ratio, side) ==
    IF RoundsBelow(ratio, side) THEN (ratio * side) \div RatioDen - 1
    ELSE (ratio * side) \div RatioDen

\* isinstance(roi_ratio, list) and len(roi_ratio) == 4
IsBox(roi_ratio) == Len(roi_ratio) = 4

\* 0 <= x1 < x2 <= 1 and 0 <= y1 < y2 <= 1
ValidRatios(b) ==
    /\ 0 <= b[1] /\ b[1] < b[3] /\ b[3] <= RatioDen
    /\ 0 <= b[2] /\ b[2] < b[4] /\ b[4] <= RatioDen

PixelBox(b, card) ==
    [x1 |-> PixelOf(b[1], card.w), y1 |-> PixelOf(b[2], card.h),
     x2 |-> PixelOf(b[3], card.w), y2 |-> PixelOf(b[4], card.h)]

\* 0 <= x1_px < x2_px <= width and 0 <= y1_px < y2_px <= height
ValidPixels(px, card) ==
    /\ 0 <= px.x1 /\ px.x1 < px.x2 /\ px.x2 <= card.w
    /\ 0 <= px.y1 /\ px.y1 < px.y2 /\ px.y2 <= card.h

\* card[y1_px:y2_px, x1_px:x2_px]
\* a crop that includes the column x2 and the row y2
CropInclusive(px) ==
    [x |-> px.x1, y |-> px.y1, w |-> px.x2 - px.x1 + 1, h |-> px.y2 - px.y1 + 1]

\* card[y1_px:y2_px, x1_px:x2_px]
Crop(px) == [x |-> px.x1, y |-> px.y1, w |-> px.x2 - px.x1, h |-> px.y2 - px.y1]

\* whether the loop body stores a crop for the box
Extracts(b, card, validated) ==
    /\ validated => (IsBox(b) /\ ValidRatios(b))
    /\ ValidPixels(PixelBox(b, card), card)
    /\ Crop(PixelBox(b, card)).w > 0 /\ Crop(PixelBox(b, card)).h > 0

\* the loop over the boxes of a table
ExtractFrom(table, card, validated) ==
    [f \in {g \in DOMAIN table : Extracts(table[g], card, validated)} |->
        Crop(PixelBox(table[f], card))]

\* a selection that takes the manual table whenever it is enabled
UsesManualWhenEnabled == use_manual_roi

\* use_manual_roi and self.roi_config
UsesManual == use_manual_roi /\ roi_config # EmptyDict

\* The call extract_rois(card).
ExtractRois(card) ==
    /\ last' = [op |-> "extract_rois", card |-> card,
                rois |-> IF UsesManual
                         THEN ExtractFrom(roi_config, card, TRUE)
                         ELSE ExtractFrom(default_rois, card, FALSE)]
    /\ UNCHANGED <<enable_caching, ocr_cache, player_name_dict, models,
                   use_manual_roi, roi_config, prev, ncalls, inflight>>

(***************************************************************************)
(* An ImageProcessor with a roi_config.json of one or two boxes, cutting   *)
(* cards of several sizes                                                  *)
(***************************************************************************)
CardSides == {1, 3, 8, 10, 90, 180, 400}

Cards2 == {[w |-> w, h |-> h] : w \in CardSides, h \in CardSides}

\* corner ratios in eighths, some outside [0, 1]
XRatios == {-125, 0, 125, 250, 375, 625, 1000, 1125}
YRatios == {0, 500, 1000}

ConfigBoxes ==
    {<<x1, y1, x2, y2>> : x1 \in XRatios, x2 \in XRatios,
                          y1 \in YRatios, y2 \in YRatios}
    \cup {<<0, 0, 1000>>}

RoiConfigs ==
    {EmptyDict}
    \cup {("overall" :> b) : b \in ConfigBoxes}
    \cup {("overall" :> b) @@ ("position" :> <<125, 0, 250, 500>>) :
             b \in {<<375, 0, 625, 1000>>, <<0, 0, 1000>>, <<0, 0, 0, 0>>}}

InitRoi ==
    /\ enable_caching = TRUE
    /\ ocr_cache = <<>>
    /\ player_name_dict = EmptyDict
    /\ models = {}
    /\ use_manual_roi \in BOOLEAN
    /\ roi_config \in RoiConfigs
    /\ last = NoOp
    /\ inflight = NoThreads
    /\ prev = NoOp
    /\ ncalls = NoCalls

NextRoi == \E card \in Cards2 : ExtractRois(card)

SpecRoi == InitRoi /\ [][NextRoi]_vars

(***************************************************************************)
(* _postprocess_text on its own: engine outputs of up to MaxDigits digits, *)
(* bare or with other characters around them, normalized for every field   *)
(***************************************************************************)
MaxDigits == 3
MaxPostprocess == 1

RECURSIVE DigitStrings(_)
DigitStrings(n) ==
    IF n = 0 THEN {<<>>}
    ELSE LET shorter == DigitStrings(n - 1)
         IN  shorter \cup {Append(t, d) : t \in {u \in shorter : Len(u) = n - 1},
                                          d \in Range(DigitChars)}

\* digits with letters, a blank or a sign around them
NoisyTexts ==
    { <<"O","V","R">> \o t : t \in DigitStrings(2) }
    \cup { <<"8"," ","8">>, <<"-","5">>, <<"1","2","0","+">>, <<"S","T">> }

\* position and season texts: the valid codes, the keys of the correction
\* tables, and texts the substring rules apply or do not apply to
CodeTexts ==
    valid_positions \cup DOMAIN position_correction \cup DOMAIN icon_correction
    \cup Range(season_classes)
    \cup { <<"d","m">>, <<"X","L","F">>, <<"R","F","X">>, <<"X","C","M">>,
           <<"A","M","X">>, <<"C","B","X">>, <<"S","X">>, <<"S">>, <<"X","Y">>,
           <<"f","c"," ","2","1">>, <<"t","o","t","s">>, <<"X","Y","Z","1">> }

PostTexts == DigitStrings(MaxDigits) \cup NoisyTexts \cup CodeTexts

\* The call _postprocess_text(text, field).
PostprocessCall(text, field) ==
    /\ last' = [op |-> "_postprocess_text", text |-> text, field |-> field,
                value |-> PostprocessText(text, field, player_name_dict)]
    /\ UNCHANGED <<enable_caching, ocr_cache, player_name_dict, models,
                   use_manual_roi, roi_config, prev, inflight>>

InitPost ==
    /\ enable_caching = TRUE
    /\ ocr_cache = <<>>
    /\ player_name_dict \in LoadedDicts
    /\ models = {}
    /\ use_manual_roi = FALSE
    /\ roi_config = EmptyDict
    /\ last = NoOp
    /\ inflight = NoThreads
    /\ prev = NoOp
    /\ ncalls = [postprocess |-> 0]

NextPost ==
    /\ ncalls.postprocess < MaxPostprocess
    /\ ncalls' = [ncalls EXCEPT !.postprocess = @ + 1]
    /\ \E text \in PostTexts, field \in KnownFields : PostprocessCall(text, field)

SpecPost == InitPost /\ [][NextPost]_vars

(***************************************************************************)
(* ImageProcessor.detect_card                                              *)
(*                                                                         *)
(* An image is its size and whether it has three channels.  What           *)
(* findContours finds in the mask is an input: a sequence of contours,     *)
(* each with its area and its bounding rectangle in the normalized frame.  *)
(***************************************************************************)
min_dimension == 300
max_dimension == 1280

Max(a, b) == IF a > b THEN a ELSE b

\* the sides s among those of ImageSides for which the float product
\* s * (1280 / s) falls just below 1280
ScalesBelow(side, longest) == side = longest /\ longest = 2139

\* int(side * scale) with scale = max_dimension / longest
ScaledSide(side, longest) ==
    IF ScalesBelow(side, longest) THEN (side * max_dimension) \div longest - 1
    ELSE (side * max_dimension) \div longest

NeedsResize(image) == image.w > max_dimension \/ image.h > max_dimension

\* a normalization that leaves every image at its size
NormalizedKeepsSize(image) == [w |-> image.w, h |-> image.h]

\* the size of the frame after the normalization
Normalized(image) ==
    IF NeedsResize(image)
    THEN [w |-> ScaledSide(image.w, Max(image.w, image.h)),
          h |-> ScaledSide(image.h, Max(image.w, image.h))]
    ELSE [w |-> image.w, h |-> image.h]

\* cv2.resize raises when asked for a side of 0 pixels
ResizeRaises(image) ==
    NeedsResize(image) /\ (Normalized(image).w = 0 \/ Normalized(image).h = 0)

\* cv2.contourArea(c) > width * height * 0.1
IsValidContour(c, frame) == c.area * 10 > frame.w * frame.h

\* a choice of the first valid contour, whatever its area
FirstContour(cs) == cs[1]

\* max(valid_contours, key=cv2.contourArea): the first of the largest
LargestContour(cs) ==
    cs[CHOOSE i \in DOMAIN cs :
          /\ \A j \in DOMAIN cs : cs[j].area <= cs[i].area
          /\ \A j \in 1..(i - 1) : cs[j].area < cs[i].area]

\* 1.0 <= h / w <= 1.8
CardShaped(c) == c.h >= c.w /\ c.h * 10 <= c.w * 18

NoCard == [found |-> FALSE]

DetectCardFn(image, contours) ==
    IF image.kind = "none" THEN NoCard
    ELSE IF image.w < min_dimension \/ image.h < min_dimension THEN NoCard
    ELSE IF ResizeRaises(image) THEN NoCard
    ELSE IF ~image.bgr THEN NoCard
    ELSE LET frame == Normalized(image)
             cs    == contours[frame]
             valid == SelectSeq(cs, LAMBDA c : IsValidContour(c, frame))
             whole == [found |-> TRUE, card |-> frame,
                       position |-> <<0, 0, frame.w, frame.h>>]
         IN  IF valid # <<>>
             THEN LET c == LargestContour(valid)
                  IN  IF CardShaped(c)
                      THEN [found |-> TRUE, card |-> [w |-> c.w, h |-> c.h],
                            position |-> <<c.x, c.y, c.w, c.h>>]
                      ELSE whole
             ELSE whole

\* The call detect_card(image), the mask of the image having the contours
\* named by pattern.
DetectCard(image, pattern, contours) ==
    /\ last' = [op |-> "detect_card", image |-> image, contours |-> pattern,
                ret |-> DetectCardFn(image, contours)]
    /\ UNCHANGED <<enable_caching, ocr_cache, player_name_dict, models,
                   use_manual_roi, roi_config, prev, ncalls, inflight>>

(***************************************************************************)
(* An ImageProcessor detecting cards in images of several sizes            *)
(***************************************************************************)
ImageSides == {299, 300, 400, 1280, 1281, 2000, 2139, 384000, 384001}

NoImage == [kind |-> "none"]

Images ==
    {NoImage}
    \cup {[kind |-> "image", w |-> w, h |-> h, bgr |-> c] :
             w \in ImageSides, h \in ImageSides, c \in BOOLEAN}

\* contours in a frame: a speck, a band over the upper half, a card in the
\* middle, the whole frame
Speck(frame) ==
    [x |-> 0, y |-> 0, w |-> Max(frame.w \div 5, 1), h |-> Max(frame.h \div 5, 1),
     area |-> Max(frame.w \div 5, 1) * Max(frame.h \div 5, 1)]

Band(frame) ==
    [x |-> 0, y |-> 0, w |-> frame.w, h |-> Max(frame.h \div 2, 1),
     area |-> frame.w * Max(frame.h \div 2, 1)]

CardIn(frame) ==
    LET w == Max(Min(frame.w, frame.h) \div 2, 1)
        h == Min((w * 7) \div 5, frame.h)
    IN  [x |-> (frame.w - w) \div 2, y |-> (frame.h - h) \div 2, w |-> w, h |-> h,
         area |-> w * h]

Whole(frame) ==
    [x |-> 0, y |-> 0, w |-> frame.w, h |-> frame.h, area |-> frame.w * frame.h]

ContourPatterns ==
    {<<>>, <<"speck">>, <<"band">>, <<"card">>, <<"whole">>,
     <<"speck", "card">>, <<"band", "card">>, <<"card", "band">>}

ContourOf(name, frame) ==
    CASE name = "speck" -> Speck(frame)
      [] name = "band"  -> Band(frame)
      [] name = "card"  -> CardIn(frame)
      [] name = "whole" -> Whole(frame)

NextDetect ==
    \E image \in Images, pattern \in ContourPatterns :
        DetectCard(image, pattern,
                   [frame \in {Normalized(image)} |->
                       [i \in DOMAIN pattern |-> ContourOf(pattern[i], frame)]])

InitDetect ==
    /\ enable_caching = TRUE
    /\ ocr_cache = <<>>
    /\ player_name_dict = EmptyDict
    /\ models = {}
    /\ use_manual_roi = FALSE
    /\ roi_config = EmptyDict
    /\ last = NoOp
    /\ inflight = NoThreads
    /\ prev = NoOp
    /\ ncalls = NoCalls

SpecDetect == InitDetect /\ [][NextDetect]_vars

(***************************************************************************)
(* The gauge swept: a synthetic bar of some width is recognized empty, and *)
(* then again and again with one more green column from the left edge.     *)
(***************************************************************************)
MaxGaugeWidth == 40

InitGauge ==
    /\ enable_caching \in BOOLEAN
    /\ ocr_cache = <<>>
    /\ player_name_dict = EmptyDict
    /\ models = {}
    /\ use_manual_roi = FALSE
    /\ roi_config = EmptyDict
    /\ last = NoOp
    /\ inflight = NoThreads
    /\ prev = NoOp
    /\ ncalls = NoCalls

\* the width and the number of green columns of a synthetic bar
BarWidth(roi) == roi.bytes[1]
BarFill(roi) == roi.bytes[2]

\* recognize an empty bar, as the first call of the recognizer
MeasureEmpty ==
    /\ last = NoOp
    /\ \E width \in 1..MaxGaugeWidth : RecognizeText(GaugeImage(width, 0), "boost_level")
    /\ UNCHANGED ncalls

\* recognize the bar of the last call with one more green column
MeasureNext ==
    /\ last.op = "recognize_text"
    /\ BarFill(last.roi) < BarWidth(last.roi)
    /\ RecognizeText(GaugeImage(BarWidth(last.roi), BarFill(last.roi) + 1),
                     "boost_level")
    /\ UNCHANGED ncalls

\* the bar as a single-channel array
GrayGaugeImage(width, k) ==
    [GaugeImage(width, k) EXCEPT !.bgr = FALSE, !.bytes = <<width, k, 1>>]

\* recognize the bar of the last call again, as a single-channel array
MeasureGray ==
    /\ last.op = "recognize_text"
    /\ last.roi.bgr
    /\ RecognizeText(GrayGaugeImage(BarWidth(last.roi), BarFill(last.roi)),
                     "boost_level")
    /\ UNCHANGED ncalls

NextGauge == MeasureEmpty \/ MeasureNext \/ MeasureGray

SpecGauge == InitGauge /\ [][NextGauge]_vars

(***************************************************************************)
(* The gauge analysis of images whose scanlines have gaps: every row of    *)
(* green and other pixels up to a width                                    *)
(***************************************************************************)
MaxScanWidth == 10

ScanRows == UNION {[1..width -> {0, 1}] : width \in 1..MaxScanWidth}

\* a colour image whose three scanlines all look like row
ScanImage(row) ==
    [kind |-> "image", bytes |-> <<Len(row), -1>> \o row, bgr |-> TRUE,
     reads |-> [i \in 1..4 |-> Reads(<<>>)],
     mask |-> <<row, row, row>>]

ScanGauge ==
    /\ last = NoOp
    /\ \E row \in ScanRows : RecognizeText(ScanImage(row), "boost_level")
    /\ UNCHANGED ncalls

SpecScan == InitGauge /\ [][ScanGauge]_vars

(***************************************************************************)
(* Properties of recognize_text (specification Spec)                       *)
(***************************************************************************)
IsRecognition(call) == call.op = "recognize_text"

\* the call ran the OCR engine on the variants of its image
OnOcrPath(call) == IsRecognition(call) /\ ~call.raised /\ call.ocr > 0

\* the texts the engine reads on the variants, stripped of whitespace and symbols
StrippedReads(roi, field) ==
    { RemoveSpaces(WordCharsOnly(roi.reads[i].text)) :
        i \in {j \in 1..NumVariants(field) : ~roi.reads[j].raises} } \ {<<>>}

\* the non-empty post-processed outputs of the last call's variants
LastResults == OcrResults(last.roi, last.field, player_name_dict)

MaxOccurrences(results) ==
    CHOOSE m \in 0..Len(results) :
        /\ \A t \in Range(results) : Occurrences(results, t) <= m
        /\ \E t \in Range(results) : Occurrences(results, t) = m

(* C1: once the correction raw -> corrected has been recorded, recognize_text *)
(* on the player_name field of an image whose stripped OCR text is raw        *)
(* returns corrected with confidence exactly 1.0, however many variants read  *)
(* it.                                                                        *)
C1_DictionaryOverride ==
    ( /\ IsRecognition(last) /\ last.field = "player_name"
      /\ last.roi.kind = "image" /\ last.roi.bgr
      /\ prev.op = "update_player_name_dict" /\ prev.ret
      /\ StrippedReads(last.roi, "player_name") = {prev.corrections.original} )
    => /\ last.value = prev.corrections.name
       /\ ConfEq(last.conf, ConfOne)

\* two consecutive calls of recognize_text with the same image and field, caching on
SameCallTwice ==
    /\ enable_caching
    /\ IsRecognition(last) /\ IsRecognition(prev)
    /\ last.field = prev.field /\ last.roi = prev.roi

(* C2 as stated: with caching enabled the second of two identical calls      *)
(* returns the pair of the first and is answered from the cache, with no OCR *)
(* engine call, for every field and every outcome of the first call.         *)
C2_SecondCallFromCache ==
    (SameCallTwice /\ last.roi.kind = "image" /\ last.roi.bgr) =>
        /\ last.value = prev.value /\ last.conf = prev.conf
        /\ last.hit /\ last.ocr = 0

\* the call left an entry for its key in the cache: it was a hit, or its vote
\* had a winner
LeftEntry(call) ==
    ~call.raised /\ (call.hit \/ (call.ocr > 0 /\ ConfGt(call.conf, ConfZero)))

(* C2 as amended: the second of two identical calls behaves as the first     *)
(* (same pair, or both raise); it is answered from the cache, with no OCR    *)
(* engine call, exactly when the first call was a cache hit or its vote had  *)
(* a winner. After a first call that ended in the default, on an empty       *)
(* image, on boost_level or in an exception, the second call is no hit.      *)
C2_SecondCallAmended ==
    SameCallTwice =>
        /\ last.raised = prev.raised
        /\ last.value = prev.value /\ last.conf = prev.conf
        /\ last.hit <=> LeftEntry(prev)
        /\ last.hit => last.ocr = 0

C2_Witness == SameCallTwice /\ last.hit /\ ~prev.hit /\ prev.ocr = 4

(* C4: for each of the seven known fields recognize_text never returns an    *)
(* empty value and never raises; when every variant reads nothing or raises  *)
(* it returns the field's default with confidence 0.0.                       *)
C4_NeverEmptyNeverRaises ==
    ( /\ IsRecognition(last) /\ last.field \in KnownFields
      /\ last.roi.kind # "none" ) =>
        /\ ~last.raised
        /\ last.value # <<>>
        /\ (OnOcrPath(last) /\ LastResults = <<>>) =>
              (last.value = default_values[last.field] /\ ConfEq(last.conf, ConfZero))

Rejected(c) ==
    \/ ~c.has_name
    \/ c.original = <<>>
    \/ c.name = <<>>
    \/ c.original = c.name

(* C16: the name dictionary only grows: no step removes a key, a recognition *)
(* leaves the dictionary as it is, and an update that is rejected (missing   *)
(* or empty original or corrected name, or original equal to corrected)      *)
(* leaves the dictionary as it is and returns False.                         *)
C16_DictionaryGrows ==
    [][ /\ DOMAIN player_name_dict \subseteq DOMAIN player_name_dict'
        /\ ncalls'.recognize # ncalls.recognize =>
              player_name_dict' = player_name_dict
        /\ (ncalls'.update # ncalls.update /\ Rejected(last'.corrections)) =>
              /\ player_name_dict' = player_name_dict
              /\ last'.ret = FALSE ]_vars

\* after a recognition, a correction of a name to itself has been rejected
\* and the loaded dictionary is intact
C16_Witness ==
    /\ ncalls.recognize >= 1
    /\ last.op = "update_player_name_dict" /\ ~last.ret
    /\ last.corrections.original = Name2 /\ last.corrections.name = Name2
    /\ player_name_dict = (Name1 :> Name2)

\* what recognize_text returns for the image with an empty cache and the
\* current dictionary
FreshValue(roi, field) ==
    RecognizeTextFn(roi, field, <<>>, player_name_dict, enable_caching).ret[1]

(* C17: with caching enabled, a player_name recognition returns what a fresh *)
(* recognition of the same image with the current dictionary returns, also   *)
(* when the image was recognized and cached before a correction was          *)
(* recorded.                                                                 *)
C17_CacheFollowsDictionary ==
    ( /\ enable_caching
      /\ IsRecognition(last) /\ last.field = "player_name"
      /\ last.roi.kind = "image" /\ last.roi.bgr )
    => last.value = FreshValue(last.roi, "player_name")

\* the cache entry a recognition writes
EntryOf(call) ==
    [key |-> <<call.field, RoiHash(call.roi)>>, value |-> <<call.value, call.conf>>]

\* the call ran the OCR engine and at least one variant gave a text
NonEmptyOcr(call) ==
    /\ OnOcrPath(call)
    /\ OcrResults(call.roi, call.field, player_name_dict) # <<>>

\* the call ran the OCR engine, no variant gave a text, and the field's
\* default was returned
EndsInDefault(call) ==
    /\ OnOcrPath(call)
    /\ OcrResults(call.roi, call.field, player_name_dict) = <<>>

(* C19: the cache is written only by a recognize_text call with a non-empty  *)
(* OCR result and caching enabled: a call that ends in the per-field         *)
(* default, a call on an empty image, a boost_level call, a cache hit and    *)
(* any call with caching disabled leave the cache contents unchanged.        *)
C19_CacheWrittenOnlyByOcr ==
    [][ /\ ( /\ IsRecognition(last') /\ ncalls'.recognize # ncalls.recognize
             /\ \/ EndsInDefault(last')
                \/ last'.roi.kind = "empty"
                \/ last'.field = "boost_level"
                \/ last'.hit
                \/ ~enable_caching )
           => ocr_cache' = ocr_cache
        /\ ocr_cache' # ocr_cache =>
              /\ ncalls'.recognize # ncalls.recognize
              /\ enable_caching /\ ~last'.hit /\ NonEmptyOcr(last') ]_vars

\* after a call that cached its result, a call on another image ended in
\* the default and the cache still holds the one entry
C19_Witness ==
    /\ enable_caching
    /\ IsRecognition(prev) /\ NonEmptyOcr(prev)
    /\ IsRecognition(last) /\ EndsInDefault(last) /\ last.field = "overall"
    /\ last.value = DefaultValue("overall") /\ ConfEq(last.conf, ConfZero)
    /\ ocr_cache = <<EntryOf(prev)>>
    /\ EntryOf(prev).key # EntryOf(last).key

(* C20: the name dictionary is applied at most once per recognition: when   *)
(* it holds both A -> B and B -> C, recognizing a player_name image whose    *)
(* stripped OCR text is A returns B, not C.                                  *)
C20_DictionaryAppliedOnce ==
    \A A \in DOMAIN player_name_dict :
        ( /\ IsRecognition(last) /\ last.field = "player_name"
          /\ last.roi.kind = "image" /\ last.roi.bgr /\ ~last.hit
          /\ StrippedReads(last.roi, "player_name") = {A}
          /\ player_name_dict[A] \in DOMAIN player_name_dict )
        => last.value = player_name_dict[A]

(***************************************************************************)
(* Properties of the cache (specification SpecCache)                       *)
(***************************************************************************)
\* the keys of the cache, in insertion order
CacheKeySeq(cache) == [i \in DOMAIN cache |-> cache[i].key]

\* the keys of the images lo..hi, in that order
FillKeys(lo, hi) == [i \in 1..(hi - lo + 1) |-> FillKey(lo + i - 1)]

(* C3: after results for 1001 distinct (field, image) pairs have been stored *)
(* the cache holds exactly 1000 entries, the first-inserted key is absent    *)
(* and the 1001st is present; the cache never holds more than 1000 entries,  *)
(* and it holds the most recently inserted keys: after n distinct stores,    *)
(* the last min(n, 1000) of them in insertion order, and the key of a call   *)
(* that has just stored or hit.                                              *)
C3_CacheBound ==
    /\ Len(ocr_cache) <= 1000
    /\ (ncalls.fresh = 1001 /\ ncalls.revisit = 0) =>
          /\ Len(ocr_cache) = 1000
          /\ FillKey(1) \notin CacheKeys(ocr_cache)
          /\ FillKey(1001) \in CacheKeys(ocr_cache)
    /\ ncalls.revisit = 0 =>
          CacheKeySeq(ocr_cache) =
              FillKeys(IF ncalls.fresh > 1000 THEN ncalls.fresh - 999 ELSE 1,
                       ncalls.fresh)
    /\ IsRecognition(last) =>
          /\ <<last.field, RoiHash(last.roi)>> \in CacheKeys(ocr_cache)
          /\ ~last.hit =>
                ocr_cache[Len(ocr_cache)].key = <<last.field, RoiHash(last.roi)>>

\* the 1001st distinct image has been stored and the first one evicted
C3_Witness ==
    /\ ncalls.fresh = 1001 /\ ncalls.revisit = 0
    /\ Len(ocr_cache) = 1000
    /\ ocr_cache[1].key = FillKey(2)

\* all worker threads have started their call and returned from it
AllReturned == \A t \in Threads : Returned(t)

\* C13: once all parallel recognize_text calls have returned, the cache
\* holds at most 1000 entries and no call's eviction was abandoned because
\* another call changed the cache in between.
C13_ExclusiveEviction ==
    AllReturned =>
        /\ Len(ocr_cache) <= CacheMax
        /\ \A t \in Threads : ~inflight[t].swallowed

(* C18: the cache evicts in insertion order regardless of access: a call     *)
(* answered from the cache leaves the cache, order included, as it is; a     *)
(* call that inserts appends its entry and removes nothing while the cache   *)
(* held fewer than 1000 entries, and removes exactly the earliest inserted   *)
(* entry when it held 1000.                                                  *)
C18_FifoEviction ==
    [][ IsRecognition(last') =>
          IF last'.hit
          THEN ocr_cache' = ocr_cache
          ELSE \/ /\ Len(ocr_cache) < CacheMax
                  /\ ocr_cache' = Append(ocr_cache, EntryOf(last'))
               \/ /\ Len(ocr_cache) = CacheMax
                  /\ ocr_cache' = Tail(Append(ocr_cache, EntryOf(last'))) ]_vars

\* the first image was answered from the full cache, and the next insertion
\* evicted its entry all the same
C18_Witness ==
    /\ IsRecognition(prev) /\ prev.hit /\ prev.roi = FillImage(1)
    /\ IsRecognition(last) /\ ~last.hit /\ last.roi = FillImage(CacheMax + 1)
    /\ Len(ocr_cache) = CacheMax
    /\ FillKey(1) \notin CacheKeys(ocr_cache)
    /\ ocr_cache[1].key = FillKey(2)
    /\ ocr_cache[CacheMax] = EntryOf(last)

(***************************************************************************)
(* Properties of the fusion (specification SpecCombined)                   *)
(***************************************************************************)
\* the classifier of the field is loaded, was asked and answered
Inferred(call, field) ==
    /\ field \in models
    /\ field \in PresentFields(call.rois)
    /\ ~InferenceRaises(RoiOf(call.rois, field), call.preds[field])

ClassifierPair(call, field) ==
    <<PredValue(field, call.preds[field].class), call.preds[field].conf>>

(* C5: in recognize_all, for every field with a loaded classifier whose      *)
(* inference succeeds, the final (value, confidence) is the classifier's     *)
(* pair when the classifier's confidence is strictly greater than the OCR    *)
(* confidence of that field, and the OCR pair otherwise (equal or lower);    *)
(* the entry of every other field is its OCR pair, whatever was decided for  *)
(* the fields with a classifier.                                             *)
C5_Fusion ==
    (last.op = "recognize_all" /\ ~last.raised) =>
        /\ DOMAIN last.results = DOMAIN last.ocr
        /\ DOMAIN last.results = PresentFields(last.rois)
        /\ \A f \in DOMAIN last.results :
              IF Inferred(last, f)
              THEN IF ConfGt(last.preds[f].conf, last.ocr[f][2])
                   THEN last.results[f] = ClassifierPair(last, f)
                   ELSE last.results[f] = last.ocr[f]
              ELSE last.results[f] = last.ocr[f]

\* two classifiers answered: one beat a non-zero OCR confidence and replaced
\* the OCR pair, the other tied with the OCR confidence and left a different
\* OCR pair in place
C5_Witness ==
    /\ last.op = "recognize_all" /\ ~last.raised
    /\ \E f \in DOMAIN last.results, g \in DOMAIN last.results :
          /\ f # g /\ Inferred(last, f) /\ Inferred(last, g)
          /\ ConfGt(last.ocr[f][2], ConfZero)
          /\ ConfGt(last.preds[f].conf, last.ocr[f][2])
          /\ last.results[f] = ClassifierPair(last, f)
          /\ last.results[f] # last.ocr[f]
          /\ ConfEq(last.preds[g].conf, last.ocr[g][2])
          /\ last.results[g] = last.ocr[g]
          /\ last.results[g] # ClassifierPair(last, g)

(* C12: in recognize_all, for every field that has no loaded classifier or   *)
(* whose classifier inference raises, the final (value, confidence) is the   *)
(* OCR outcome of that field, and no exception leaves recognize_all; with no *)
(* classifier loaded the result is that of OCRRecognizer.recognize_all.      *)
C12_ClassifierFailure ==
    last.op = "recognize_all" =>
        /\ ~last.raised
        /\ DOMAIN last.results = PresentFields(last.rois)
        /\ \A f \in DOMAIN last.results :
              ~Inferred(last, f) => last.results[f] = last.ocr[f]
        /\ models = {} => last.results = last.ocr

\* a confidence between 0 and 1
ConfInUnit(c) == c[1] >= 0 /\ c[1] <= c[2]

\* the field's value is the gauge analysis of a colour image
GaugeAnalysed(call, f) ==
    /\ f = "boost_level"
    /\ RoiOf(call.rois, f).kind = "image" /\ RoiOf(call.rois, f).bgr

\* the non-empty post-processed outputs of the variants of the field's image
FieldResults(call, f) == OcrResults(RoiOf(call.rois, f), f, player_name_dict)

\* the field's OCR vote ran and produced at least one text
Voted(call, f) ==
    /\ f # "boost_level"
    /\ RoiOf(call.rois, f).kind = "image"
    /\ FieldResults(call, f) # <<>>

\* the vote's winner was a key of the name dictionary
DictionaryCorrected(call, f) ==
    /\ f = "player_name" /\ Voted(call, f)
    /\ MostCommon(FieldResults(call, f))[1] \in DOMAIN player_name_dict

\* every variant tried gave the same non-empty text
Unanimous(call, f) ==
    /\ Voted(call, f)
    /\ Len(FieldResults(call, f)) = NumVariants(f)
    /\ Cardinality(Range(FieldResults(call, f))) = 1

\* a classifier answered with confidence 1.0
ClassifierCertain(call, f) ==
    Inferred(call, f) /\ ConfEq(call.preds[f].conf, ConfOne)

(* C14 as stated: every confidence of a recognition result lies in [0,1],    *)
(* and a confidence of exactly 1.0 occurs only for a dictionary-corrected    *)
(* player name or a gauge-analysis result, never for a value from the OCR    *)
(* vote or from a classifier.                                                *)
C14_ConfidenceOne ==
    (last.op = "recognize_all" /\ ~last.raised) =>
        \A f \in DOMAIN last.results :
            /\ ConfInUnit(last.results[f][2])
            /\ ConfEq(last.results[f][2], ConfOne) =>
                  (DictionaryCorrected(last, f) \/ GaugeAnalysed(last, f))

(* C14 as amended: every confidence of a recognition result lies in [0,1],   *)
(* and it is exactly 1.0 in exactly four cases: a gauge analysis of a colour *)
(* image, a player name whose vote winner is a key of the name dictionary,   *)
(* an OCR vote in which every variant tried gave the same non-empty text,    *)
(* and a field whose classifier answered with confidence 1.0.                *)
C14_ConfidenceOneAmended ==
    (last.op = "recognize_all" /\ ~last.raised) =>
        \A f \in DOMAIN last.results :
            /\ ConfInUnit(last.results[f][2])
            /\ ConfEq(last.results[f][2], ConfOne) <=>
                  \/ GaugeAnalysed(last, f)
                  \/ DictionaryCorrected(last, f)
                  \/ Unanimous(last, f)
                  \/ ClassifierCertain(last, f)

\* a card whose overall is read alike by all four variants and taken from
\* the vote with confidence 1.0, and whose player name is corrected by the
\* dictionary
C14_Witness ==
    /\ last.op = "recognize_all" /\ ~last.raised
    /\ DOMAIN last.results = {"overall", "player_name"}
    /\ ~Inferred(last, "overall") /\ Unanimous(last, "overall")
    /\ last.results["overall"] = << <<"8","8">>, <<4, 4>> >>
    /\ DictionaryCorrected(last, "player_name")
    /\ last.results["player_name"] = <<Name3, ConfOne>>

(***************************************************************************)
(* Properties of extract_rois (specification SpecRoi)                      *)
(***************************************************************************)
\* the integer part of ratio * side: the n with n <= ratio * side < n + 1
Floor(ratio, side) ==
    CHOOSE n \in 0..side : n * RatioDen <= ratio * side
                            /\ ratio * side < (n + 1) * RatioDen

\* the manual boxes of the last call that pass the ratio validation
ValidManualFields ==
    IF last.op = "extract_rois" /\ UsesManual
    THEN {f \in DOMAIN roi_config : IsBox(roi_config[f]) /\ ValidRatios(roi_config[f])}
    ELSE {}

(* C7: for every ratio box with 0<=x1<x2<=1 and 0<=y1<y2<=1 and every card   *)
(* of size (W,H), extract_rois yields for that field a crop of pixel size    *)
(* exactly (floor((x2-x1)*W), floor((y2-y1)*H)), and that size is at least   *)
(* (1,1): the field is never dropped.                                        *)
C7_CropSize ==
    \A f \in ValidManualFields :
        LET b == roi_config[f]
        IN  /\ f \in DOMAIN last.rois
            /\ last.rois[f].w = Floor(b[3] - b[1], last.card.w)
            /\ last.rois[f].h = Floor(b[4] - b[2], last.card.h)
            /\ last.rois[f].w >= 1 /\ last.rois[f].h >= 1

(* C7 as the code has it: the pixel box runs from floor(x1*W) to             *)
(* floor(x2*W) and from floor(y1*H) to floor(y2*H); the field is extracted   *)
(* exactly when that box is at least one pixel wide and high, and is dropped *)
(* otherwise; an extracted crop has exactly the size of the pixel box, which *)
(* is floor((x2-x1)*W) or one more (and likewise in height).  A box that     *)
(* fails the ratio validation yields no crop.                                *)
C7_CropSizeAmended ==
    (last.op = "extract_rois" /\ UsesManual) =>
        /\ DOMAIN last.rois \subseteq ValidManualFields
        /\ \A f \in ValidManualFields :
              LET b  == roi_config[f]
                  wd == Floor(b[3], last.card.w) - Floor(b[1], last.card.w)
                  ht == Floor(b[4], last.card.h) - Floor(b[2], last.card.h)
              IN  /\ f \in DOMAIN last.rois <=> (wd >= 1 /\ ht >= 1)
                  /\ f \in DOMAIN last.rois =>
                        /\ last.rois[f].w = wd /\ last.rois[f].h = ht
                        /\ last.rois[f].x = Floor(b[1], last.card.w)
                        /\ last.rois[f].y = Floor(b[2], last.card.h)
                        /\ wd - Floor(b[3] - b[1], last.card.w) \in {0, 1}
                        /\ ht - Floor(b[4] - b[2], last.card.h) \in {0, 1}

\* a valid box whose crop is one pixel wider than floor((x2-x1)*W), and a
\* valid box that is dropped
C7_Witness ==
    /\ last.op = "extract_rois" /\ UsesManual
    /\ \E f \in ValidManualFields :
          /\ f \in DOMAIN last.rois
          /\ last.rois[f].w = Floor(roi_config[f][3] - roi_config[f][1], last.card.w) + 1
    /\ \E f \in ValidManualFields : f \notin DOMAIN last.rois

\* the table extract_rois goes through
TableUsed == IF UsesManual THEN roi_config ELSE default_rois

\* an entry that is not a 4-element list, whose ratios are out of order or
\* out of [0,1], or whose pixel box is empty on the card
BadEntry(b, card) ==
    \/ Len(b) # 4
    \/ ~(0 <= b[1] /\ b[1] < b[3] /\ b[3] <= RatioDen)
    \/ ~(0 <= b[2] /\ b[2] < b[4] /\ b[4] <= RatioDen)
    \/ PixelOf(b[1], card.w) >= PixelOf(b[3], card.w)
    \/ PixelOf(b[2], card.h) >= PixelOf(b[4], card.h)

(* C15: extract_rois returns a map for every table: an entry that is not a   *)
(* 4-element list, violates 0<=x1<x2<=1 or 0<=y1<y2<=1, or truncates to an   *)
(* empty pixel box is absent from the map, every other entry is extracted,   *)
(* and every image of the map has both dimensions > 0 and lies inside the    *)
(* card.                                                                     *)
C15_BadEntriesSkipped ==
    last.op = "extract_rois" =>
        /\ DOMAIN last.rois \subseteq DOMAIN TableUsed
        /\ \A f \in DOMAIN TableUsed :
              f \in DOMAIN last.rois <=> ~BadEntry(TableUsed[f], last.card)
        /\ \A f \in DOMAIN last.rois :
              /\ last.rois[f].w > 0 /\ last.rois[f].h > 0
              /\ last.rois[f].x >= 0 /\ last.rois[f].y >= 0
              /\ last.rois[f].x + last.rois[f].w <= last.card.w
              /\ last.rois[f].y + last.rois[f].h <= last.card.h

\* a table of two entries of which the first has three elements: only the
\* second is extracted
C15_Witness ==
    /\ last.op = "extract_rois" /\ UsesManual
    /\ roi_config = ("overall" :> <<0, 0, 1000>>) @@ ("position" :> <<125, 0, 250, 500>>)
    /\ last.card = [w |-> 8, h |-> 8]
    /\ last.rois = ("position" :> [x |-> 1, y |-> 0, w |-> 1, h |-> 4])

\* the crop of a ratio box on a card
BoxCrop(b, card) ==
    [x |-> PixelOf(b[1], card.w), y |-> PixelOf(b[2], card.h),
     w |-> PixelOf(b[3], card.w) - PixelOf(b[1], card.w),
     h |-> PixelOf(b[4], card.h) - PixelOf(b[2], card.h)]

\* the manual table is enabled and has an entry
ManualChosen == use_manual_roi /\ DOMAIN roi_config # {}

(* C30: extract_rois takes its ratio boxes from the manual table exactly     *)
(* when use_manual_roi is enabled and the table is non-empty; the output     *)
(* fields are then a subset of the manual table's keys, nothing is filled    *)
(* from the built-in defaults, and an all-invalid table yields an empty map. *)
(* Otherwise exactly the seven built-in default boxes are used.              *)
C30_SourceSelection ==
    last.op = "extract_rois" =>
        LET table == IF ManualChosen THEN roi_config ELSE default_rois
        IN  /\ DOMAIN last.rois \subseteq DOMAIN table
            /\ \A f \in DOMAIN last.rois :
                  last.rois[f] = BoxCrop(table[f], last.card)
            /\ ( ManualChosen /\ \A f \in DOMAIN roi_config :
                                     BadEntry(roi_config[f], last.card) )
                  => last.rois = <<>>
            /\ ~ManualChosen =>
                  /\ Cardinality(DOMAIN default_rois) = 7
                  /\ \A f \in DOMAIN default_rois :
                        f \in DOMAIN last.rois
                            <=> ~BadEntry(default_rois[f], last.card)
                  /\ (last.card.w >= 90 /\ last.card.h >= 90) =>
                        DOMAIN last.rois = DOMAIN default_rois

\* an enabled manual table whose only entry is invalid: nothing is
\* extracted from a card on which the defaults would give seven fields
C30_Witness ==
    /\ last.op = "extract_rois"
    /\ use_manual_roi /\ roi_config = ("overall" :> <<0, 0, 0, 0>>)
    /\ last.card = [w |-> 400, h |-> 400]
    /\ last.rois = <<>>
    /\ Cardinality(DOMAIN ExtractFrom(default_rois, last.card, FALSE)) = 7

(***************************************************************************)
(* Properties of _postprocess_text (specification SpecPost)                *)
(***************************************************************************)
\* the last call normalized a non-empty string of digits as an overall
OverallOfDigits ==
    /\ last.op = "_postprocess_text" /\ last.field = "overall"
    /\ last.text # <<>>
    /\ \A i \in DOMAIN last.text : IsDigit(last.text[i])

(* C8: the overall normalizer maps every non-empty digit string, parsed as   *)
(* integer n, to an integer in the half-open range [70,120): no input yields *)
(* a result of 120 or more, or below 70.                                     *)
C8_OverallRange ==
    OverallOfDigits =>
        /\ \A i \in DOMAIN last.value : IsDigit(last.value[i])
        /\ ParseInt(last.value) >= 70
        /\ ParseInt(last.value) < 120

(* C8 as the code has it: the result is an integer in the closed range       *)
(* [70,120]; an n in [70,120] is left as it is (120 included, and the text   *)
(* with it), any other n becomes 70 + (n mod 50), which lies in [70,119].    *)
C8_OverallRangeAmended ==
    OverallOfDigits =>
        LET n == ParseInt(last.text)
            r == ParseInt(last.value)
        IN  /\ last.value # <<>>
            /\ \A i \in DOMAIN last.value : IsDigit(last.value[i])
            /\ r >= 70 /\ r <= 120
            /\ (n >= 70 /\ n <= 120) => last.value = last.text
            /\ (n < 70 \/ n > 120) => (r = 70 + (n % 50) /\ r <= 119)
            /\ r = 120 <=> n = 120

\* an input above the range was re-based
C8_Witness ==
    /\ OverallOfDigits
    /\ ParseInt(last.text) = 130
    /\ last.value = <<"1","0","0">>

\* _postprocess_text was called for the salary field on a non-empty string
\* of digits
SalaryOfDigits ==
    /\ last.op = "_postprocess_text" /\ last.field = "salary"
    /\ last.text # <<>>
    /\ \A i \in DOMAIN last.text : IsDigit(last.text[i])

PositionOfValidCode ==
    /\ last.op = "_postprocess_text" /\ last.field = "position"
    /\ last.text \in valid_positions

(* C28: every code of the canonical valid-position set is a fixed point of   *)
(* the position normalizer, so that every value of the classifier's position *)
(* label list is a value the OCR path can produce.                           *)
C28_ValidCodesFixed ==
    PositionOfValidCode => last.value = last.text

(* C28 as amended: every code of the valid-position set except RW is a fixed *)
(* point of the position normalizer; RW is rewritten to RWF by the           *)
(* correction table, which is looked up before the valid set, and no text    *)
(* normalizes to RW.                                                         *)
C28_ValidCodesFixedAmended ==
    /\ PositionOfValidCode =>
          last.value = IF last.text = <<"R","W">> THEN <<"R","W","F">> ELSE last.text
    /\ (last.op = "_postprocess_text" /\ last.field = "position") =>
          last.value # <<"R","W">>

\* the valid code RW was rewritten to RWF
C28_Witness ==
    /\ PositionOfValidCode
    /\ last.text = <<"R","W">>
    /\ last.value = <<"R","W","F">>

\* the fields whose normalizer does not depend on the name dictionary
TableFields == {"overall", "position", "salary", "enhance_level", "season_icon"}

(* C29: the normalizers for overall, position, salary, enhance_level and     *)
(* season_icon are idempotent: normalizing a normalizer's output again       *)
(* returns that output unchanged.                                            *)
C29_Idempotent ==
    (last.op = "_postprocess_text" /\ last.field \in TableFields) =>
        PostprocessText(last.value, last.field, player_name_dict) = last.value

\* a season text that the correction table rewrote, and whose rewriting is
\* left as it is
C29_Witness ==
    /\ last.op = "_postprocess_text" /\ last.field = "season_icon"
    /\ last.text = <<"f","c"," ","2","1">>
    /\ last.value = <<"2","1","F","C">>
    /\ PostprocessText(last.value, "season_icon", player_name_dict) = last.value

(***************************************************************************)
(* Properties of detect_card (specification SpecDetect)                    *)
(***************************************************************************)
\* the last call was detect_card on a three-channel image
DetectedColour ==
    last.op = "detect_card" /\ last.image.kind = "image" /\ last.image.bgr

(* C9: detect_card returns null if and only if the image has width < 300 or  *)
(* height < 300; for every image with both sides >= 300, very elongated ones *)
(* that are downscaled included, it returns a card region, which is the      *)
(* whole normalized frame when no contour qualifies.                         *)
C9_NullIffSmall ==
    DetectedColour =>
        /\ ~last.ret.found <=> (last.image.w < 300 \/ last.image.h < 300)
        /\ (last.ret.found /\ last.contours = <<>>) =>
              last.ret.position = <<0, 0, last.ret.card.w, last.ret.card.h>>

\* detect_card returned a card region
Detected == last.op = "detect_card" /\ last.ret.found

\* the contours of the last call's mask
ContoursIn(call) ==
    [i \in DOMAIN call.contours |->
        ContourOf(call.contours[i], Normalized(call.image))]

\* the contours whose area exceeds 10% of the normalized frame
Survivors(call) ==
    {i \in DOMAIN call.contours :
        ContoursIn(call)[i].area * 10
            > Normalized(call.image).w * Normalized(call.image).h}

\* the survivors of the largest area
LargestSurvivors(call) ==
    {i \in Survivors(call) :
        \A j \in Survivors(call) :
            ContoursIn(call)[j].area <= ContoursIn(call)[i].area}

\* the whole normalized frame as a card region
WholeFrame(call) ==
    [found |-> TRUE, card |-> Normalized(call.image),
     position |-> <<0, 0, Normalized(call.image).w, Normalized(call.image).h>>]

\* the bounding box of a contour as a card region
BoxRegion(c) ==
    [found |-> TRUE, card |-> [w |-> c.w, h |-> c.h],
     position |-> <<c.x, c.y, c.w, c.h>>]

C25_Normalization ==
    (Detected /\ last.contours = <<>>) =>
        LET w == last.image.w
            h == last.image.h
            longer == IF w > h THEN w ELSE h
        IN  /\ last.ret.position = <<0, 0, last.ret.card.w, last.ret.card.h>>
            /\ IF w <= 1280 /\ h <= 1280
               THEN last.ret.card = [w |-> w, h |-> h]
               ELSE /\ last.ret.card.w = (w * 1280) \div longer
                    /\ last.ret.card.h = (h * 1280) \div longer
                    /\ last.ret.card.w >= 1 /\ last.ret.card.h >= 1
                    /\ (last.ret.card.w = 1280 \/ last.ret.card.h = 1280)

\* the frame sizes of the normalization, computed side by side
FrameSide(side, longest) ==
    IF longest > max_dimension THEN ScaledSide(side, longest) ELSE side

(* C26: every non-null result of detect_card has a position (x, y, w, h)     *)
(* with x >= 0, y >= 0, w > 0, h > 0, x + w <= normalized width and y + h <= *)
(* normalized height, and a card image of exactly w by h pixels, on the      *)
(* detection path and on the whole-image fallback path.                      *)
C26_PositionInFrame ==
    Detected =>
        LET x == last.ret.position[1]
            y == last.ret.position[2]
            w == last.ret.position[3]
            h == last.ret.position[4]
            longest == Max(last.image.w, last.image.h)
        IN  /\ x >= 0 /\ y >= 0 /\ w > 0 /\ h > 0
            /\ x + w <= FrameSide(last.image.w, longest)
            /\ y + h <= FrameSide(last.image.h, longest)
            /\ last.ret.card = [w |-> w, h |-> h]

\* a card detected inside a downscaled frame
C26_Witness ==
    /\ Detected
    /\ last.image = [kind |-> "image", w |-> 2000, h |-> 1281, bgr |-> TRUE]
    /\ last.contours = <<"speck", "card">>
    /\ last.ret.position[1] > 0 /\ last.ret.position[2] > 0
    /\ last.ret.position[1] + last.ret.position[3] < 1280
    /\ last.ret.card.h > last.ret.card.w

(***************************************************************************)
(* Properties of the gauge analyzer (specification SpecGauge)              *)
(***************************************************************************)
\* the last two calls measured one bar with k and with k + 1 green columns
OneMoreColumn ==
    /\ IsRecognition(last) /\ IsRecognition(prev)
    /\ last.field = "boost_level" /\ prev.field = "boost_level"
    /\ BarWidth(last.roi) = BarWidth(prev.roi)
    /\ BarFill(last.roi) = BarFill(prev.roi) + 1

(* C10: the gauge analyzer is monotone: for a synthetic bar of fixed width   *)
(* filled with green from the left edge over k columns, the quantized step   *)
(* for k+1 filled columns is never lower than for k filled columns, for      *)
(* every k from 0 to the width; the step is one of the seven boost steps.    *)
C10_GaugeMonotone ==
    OneMoreColumn =>
        /\ ParseInt(last.value) >= ParseInt(prev.value)
        /\ ParseInt(last.value) \in Range(boost_steps)
        /\ ~last.raised /\ ConfEq(last.conf, ConfOne)

\* one more column took the gauge from step 40 to step 50
C10_Witness ==
    /\ OneMoreColumn
    /\ ParseInt(prev.value) = 40
    /\ ParseInt(last.value) = 50

\* ratio < t/100 for a ratio <<num, den>>
Below(ratio, t) == ratio[1] * 100 < t * ratio[2]

\* the step of the ladder for a ratio: the step paired with the largest
\* threshold that does not exceed it
LadderStep(ratio) ==
    CASE Below(ratio, 25) -> 0
      [] ~Below(ratio, 25) /\ Below(ratio, 45) -> 20
      [] ~Below(ratio, 45) /\ Below(ratio, 55) -> 40
      [] ~Below(ratio, 55) /\ Below(ratio, 65) -> 50
      [] ~Below(ratio, 65) /\ Below(ratio, 85) -> 60
      [] ~Below(ratio, 85) /\ Below(ratio, 95) -> 80
      [] ~Below(ratio, 95) -> 100

\* the last call analysed the gauge of a colour image
GaugeAnalysis ==
    /\ IsRecognition(last) /\ last.field = "boost_level"
    /\ last.roi.kind = "image" /\ last.roi.bgr

(* C21: the gauge quantizer maps a fill ratio r to the step paired with the  *)
(* largest threshold of 0.05, 0.25, 0.45, 0.55, 0.65, 0.85, 0.95 that does   *)
(* not exceed r, the steps being 0, 20, 40, 50, 60, 80, 100 in that order: a *)
(* ratio below 0.05 gives 0, a ratio equal to a threshold gives that         *)
(* threshold's step, and a ratio of at least 0.95 gives 100.                 *)
C21_Quantizer ==
    GaugeAnalysis =>
        last.value = ToStr(LadderStep(GreenRatio(last.roi.mask)))

\* a bar 20 wide with 11 green columns has ratio exactly 0.55 and gives 50,
\* after 10 columns (ratio 0.5) gave 40
C21_Witness ==
    /\ GaugeAnalysis /\ OneMoreColumn
    /\ BarWidth(last.roi) = 20 /\ BarFill(last.roi) = 11
    /\ GreenRatio(last.roi.mask) = <<33, 60>>
    /\ last.value = <<"5","0">> /\ prev.value = <<"4","0">>

\* the right edge of a scanline as a number of columns from the left: 0
\* for a scanline with no green pixel
EdgeColumns(row) ==
    IF \A x \in DOMAIN row : row[x] = 0 THEN 0 ELSE GreenEnd(row) + 1

\* the mean of the three scanlines' right edges divided by the width
MeanEdgeRatio(mask) ==
    <<EdgeColumns(mask[1]) + EdgeColumns(mask[2]) + EdgeColumns(mask[3]),
      3 * Len(mask[1])>>

(* C22: the fill ratio the gauge is quantized from is the mean of the three  *)
(* scanlines' right-edge positions divided by the image width, a number in   *)
(* [0,1]; an image of any width with no green pixel on the scanlines has     *)
(* ratio 0 and is reported as "0".                                           *)
C22_FillRatio ==
    GaugeAnalysis =>
        /\ MeanEdgeRatio(last.roi.mask)[1] <= MeanEdgeRatio(last.roi.mask)[2]
        /\ last.value = ToStr(LadderStep(MeanEdgeRatio(last.roi.mask)))
        /\ MeanEdgeRatio(last.roi.mask)[1] = 0 => last.value = <<"0">>

\* the last on-pixel (1-based) of the run that holds the on-pixel p, a gap of
\* up to 5 off-pixels not ending the run
RECURSIVE RunEnd(_, _)
RunEnd(row, p) ==
    LET near == {q \in (p + 1)..Len(row) : row[q] > 0 /\ q - p - 1 <= 5}
    IN  IF near = {} THEN p
        ELSE RunEnd(row, CHOOSE q \in near : \A r \in near : q <= r)

\* the 0-based index of the rightmost on-pixel of the first run, 0 for a
\* row with no on-pixel
FirstRunEdge(row) ==
    LET on == {x \in DOMAIN row : row[x] > 0}
    IN  IF on = {} THEN 0
        ELSE RunEnd(row, CHOOSE x \in on : \A y \in on : x <= y) - 1

(* C23: on each gauge scanline the edge is the rightmost on-pixel of the     *)
(* first run of on-pixels; a gap of up to 5 consecutive off-pixels inside    *)
(* the run does not end it, wherever the gap lies in the row, and a longer   *)
(* gap ends the run, so that green pixels beyond it are ignored.             *)
C23_FirstRunEdge ==
    GaugeAnalysis =>
        \A i \in 1..3 : GreenEnd(last.roi.mask[i]) = FirstRunEdge(last.roi.mask[i])

\* the last call recognized the gauge field of an image of positive size
GaugeCall ==
    IsRecognition(last) /\ last.field = "boost_level" /\ last.roi.kind = "image"

====
